---- MODULE Spec2Model ----
(***************************************************************************)
(* A model of generate_amo_rss_Version2.py: the pipeline                   *)
(*   fetch pages -> collect -> recency filter -> render -> write           *)
(* of generate_rss_feed, and the configuration resolution of _env_or_arg.  *)
(***************************************************************************)
EXTENDS Integers, Sequences, FiniteSets, TLC

VARIABLES
    search_url,   \* parameter: None or Some(url)
    amo_type,     \* parameter: a string as a sequence of characters; <<>> is None or ''
    q,            \* parameter: a string as a sequence of characters; <<>> is None or ''
    page_size,    \* parameter: an integer
    max_items,    \* parameter: None or Some(int)
    max_days,     \* parameter: None or Some(int)
    pc,           \* position of the run
    page,         \* the page counter of the parameter-mode loop
    url,          \* the url of _fetch_following's loop
    collected,    \* the accumulator
    items,        \* the <item> elements of the channel, in document order
    written,      \* the paths tree.write was called with, in call order
    nreq,         \* history: number of requests.get calls issued
    failed,       \* history: a request raised or returned a non-200 status
    regular,      \* history: every response so far was a page without "next" that is full or empty
    ev,           \* history: the last response and what the fetcher did with it
    catalog,      \* the record shapes the server holds
    args,         \* the command line, as argparse sees it
    env           \* the environment variables

vars == <<search_url, amo_type, q, page_size, max_items, max_days, pc, page, url,
          collected, items, written, nreq, failed, regular, ev, catalog, args, env>>

params == <<search_url, amo_type, q, page_size, max_items, max_days, catalog>>

(***************************************************************************)
(* Bounds of the model.                                                    *)
(***************************************************************************)
MaxPageSize == 2      \* page_size ranges over 1..MaxPageSize; a page holds at most this many records
MaxItems == 2         \* max_items ranges over None and 1..MaxItems
MaxAge == 1           \* max_days ranges over None and -1..MaxAge

\* The server holds no more records than a capped run can collect at most:
\* max_items - 1 before its last page, and one page. Only runs without a cap
\* ever find the server out of records.
MaxRecs == MaxItems + MaxPageSize - 1

(***************************************************************************)
(* Python values.                                                          *)
(***************************************************************************)
None == <<>>
Some(x) == <<x>>
Val(o) == o[1]

\* Python truthiness of an Optional[int]: None and 0 are falsy.
Truthy(o) == o # None /\ Val(o) # 0

Min(a, b) == IF a <= b THEN a ELSE b

(***************************************************************************)
(* Timestamp strings, by how the two parsers treat them.                   *)
(*   "none"  the key is missing           "empty" the value is ''          *)
(*   "z"     ISO-8601 with a trailing Z   "naive" ISO-8601 without offset  *)
(*   "alt"   rejected by fromisoformat, accepted by the strptime pattern   *)
(*           (e.g. '2024-1-5T01:02:03.5Z')                                 *)
(*   "bad"   rejected by both                                              *)
(* t is the instant the string denotes, in days.                           *)
(***************************************************************************)
TNone == [fmt |-> "none", t |-> 0]
TEmpty == [fmt |-> "empty", t |-> 0]
TBad == [fmt |-> "bad", t |-> 0]
TZ(d) == [fmt |-> "z", t |-> d]
TNaive(d) == [fmt |-> "naive", t |-> d]
TAlt(d) == [fmt |-> "alt", t |-> d]

\* datetime.utcnow() of the run, in days.
Now == 3

(***************************************************************************)
(* Catalog records. n is the position in which the server handed the       *)
(* record out (history, not visible to the program); name, version, slug   *)
(* are '' and id is 0 when the key is missing; fc, vc, lu, cr are          *)
(* current_version.file.created, current_version.created, last_updated,    *)
(* created.                                                                *)
(***************************************************************************)
RBare == [n |-> 0, name |-> "", version |-> "", slug |-> "", id |-> 0,
          fc |-> TNone, vc |-> TNone, lu |-> TNone, cr |-> TNone]
RNew == [n |-> 0, name |-> "Foo", version |-> "1.0", slug |-> "foo", id |-> 7,
         fc |-> TNone, vc |-> TEmpty, lu |-> TNaive(Now - 1), cr |-> TNaive(0)]
ROld == [n |-> 0, name |-> "Old", version |-> "", slug |-> "", id |-> 8,
         fc |-> TNone, vc |-> TNone, lu |-> TNone, cr |-> TNaive(0)]
RZ == [n |-> 0, name |-> "Zed", version |-> "2.0", slug |-> "zed", id |-> 9,
       fc |-> TZ(Now), vc |-> TZ(Now), lu |-> TZ(Now), cr |-> TZ(0)]
RFall == [n |-> 0, name |-> "", version |-> "3.0", slug |-> "fall", id |-> 0,
          fc |-> TBad, vc |-> TAlt(0), lu |-> TNaive(Now), cr |-> TNone]

\* The server of one run holds records of one of these sets of shapes.
Catalogs == {{RBare, ROld}, {RNew, RZ}, {RFall}}

Urls == {"u1", "u2"}

(***************************************************************************)
(* Server responses. kind "exc": requests.get raised; "http": a status     *)
(* other than 200; "json": status 200 with a body resp.json() raises on;   *)
(* "ok": status 200 with a JSON body {results, next}. The server is free   *)
(* to answer anything to any request.                                      *)
(***************************************************************************)
SeqsUpTo(S, k) == UNION {[1..j -> S] : j \in 0..k}

Responses(shapes, room) ==
    {[kind |-> "exc", results |-> <<>>, next |-> None],
     [kind |-> "http", results |-> <<>>, next |-> None],
     [kind |-> "json", results |-> <<>>, next |-> None]}
    \cup
    {[kind |-> "ok", results |-> rs, next |-> nx] :
        rs \in SeqsUpTo(shapes, Min(MaxPageSize, room)),
        nx \in {None} \cup {Some(u) : u \in Urls}}

\* collected.extend(results), numbering the records as they arrive
Extend(acc, results) ==
    acc \o [i \in 1..Len(results) |-> [results[i] EXCEPT !.n = Len(acc) + i]]

\* `max_items and len(collected) >= int(max_items)`
\* a cap that lets the accumulator reach the maximum before it stops the loop
CapReachedLate(acc) == Truthy(max_items) /\ Len(acc) > Val(max_items)
CapReached(acc) == Truthy(max_items) /\ Len(acc) >= Val(max_items)

NoEv == [mode |-> "none", k |-> 0, did |-> "none"]

\* no flag given, or no environment variable set
NoArgs == [search_url |-> None, amo_type |-> None, q |-> None,
           page_size |-> None, max_items |-> None, max_days |-> None]

(***************************************************************************)
(* generate_rss_feed is entered with its parameters bound.                 *)
(***************************************************************************)
TypeInputs == {<<>>,
               <<"t", "h", "e", "m", "e", "s">>,
               <<"E", "x", "t", "e", "n", "s", "i", "o", "n">>,
               <<"a", "d", "d", "o", "n", "s">>}

Init ==
    /\ \/ /\ amo_type = <<>>                  \* runs without a type filter
          /\ q = <<>>
          /\ search_url \in {None, Some("u1")}
          /\ page_size \in 1..MaxPageSize
          /\ max_items \in {None} \cup {Some(m) : m \in 1..MaxItems}
          /\ max_days \in {None} \cup {Some(d) : d \in (0 - 1)..MaxAge}
          /\ catalog \in Catalogs
       \/ /\ amo_type \in TypeInputs \ {<<>>}   \* runs with a type filter
          /\ q \in {<<>>, <<"k">>}
          /\ search_url = None
          /\ page_size = 1
          /\ max_items \in {None, Some(1)}
          /\ max_days = None
          /\ catalog = {RBare, ROld}
    /\ pc = "start"
    /\ page = 1
    /\ url = None
    /\ collected = <<>>
    /\ items = <<>>
    /\ written = <<>>
    /\ nreq = 0
    /\ failed = FALSE
    /\ regular = TRUE
    /\ ev = NoEv
    /\ args = NoArgs
    /\ env = NoArgs

\* lines 111-129: choose the fetch mode
Begin ==
    /\ pc = "start"
    /\ IF search_url # None
          THEN pc' = "follow" /\ url' = search_url
          ELSE pc' = "param" /\ url' = url
    /\ page' = 1
    /\ UNCHANGED <<params, collected, items, written, nreq, failed, regular, ev, args, env>>

IsRegular(r) ==
    /\ r.kind = "ok"
    /\ r.next = None
    /\ Len(r.results) \in {0, page_size}

\* what lines 141-173 do with a response, acc being the accumulator after extend
ParamDecision(r, acc) ==
    IF r.kind \in {"exc", "http"} THEN "fail"         \* lines 141-149
    ELSE IF r.kind = "json" THEN "raise"              \* line 151, not caught
    ELSE IF Len(r.results) = 0 THEN "empty"           \* lines 153-154
    ELSE IF CapReached(acc) THEN "cap"                \* lines 159-160
    ELSE IF r.next # None THEN "follow"               \* lines 163-167
    ELSE IF Len(r.results) < page_size THEN "short"   \* lines 170-171
    ELSE "page"                                       \* line 173

\* what lines 81-109 do with a response
FollowDecision(r, acc) ==
    IF r.kind \in {"exc", "http"} THEN "fail"         \* lines 81-89
    ELSE IF r.kind = "json" THEN "raise"              \* line 91, not caught
    ELSE IF Len(r.results) = 0 THEN "empty"           \* lines 93-94
    ELSE IF CapReached(acc) THEN "cap"                \* lines 99-100
    ELSE IF r.next # None THEN "follow"               \* lines 103-106
    ELSE "nonext"                                     \* line 109

Event(mode, r, d) ==
    [mode |-> mode, k |-> Len(r.results), did |-> d]

\* one iteration of the `while True` loop of lines 130-173
FetchPage ==
    /\ pc = "param"
    /\ \E r \in Responses(catalog, MaxRecs - Len(collected)) :
        LET acc == Extend(collected, r.results)
            d == ParamDecision(r, acc)
        IN
        /\ nreq' = nreq + 1
        /\ regular' = (regular /\ IsRegular(r))
        /\ failed' = (failed \/ d = "fail")
        /\ collected' = IF d \in {"fail", "raise", "empty"} THEN collected ELSE acc
        /\ pc' = CASE d = "follow" -> "follow"
                  [] d = "page" -> "param"
                  [] d = "raise" -> "crashed"
                  [] OTHER -> "filter"
        /\ url' = IF d = "follow" THEN r.next ELSE url
        /\ page' = IF d = "page" THEN page + 1 ELSE page
        /\ ev' = Event("param", r, d)
    /\ UNCHANGED <<params, items, written, args, env>>

\* one iteration of the `while url` loop of _fetch_following, lines 80-109;
\* when the loop ends, line 126 or lines 166-167 go on to the filter
FetchFollowing ==
    /\ pc = "follow"
    /\ \E r \in Responses(catalog, MaxRecs - Len(collected)) :
        LET acc == Extend(collected, r.results)
            d == FollowDecision(r, acc)
        IN
        /\ nreq' = nreq + 1
        /\ regular' = FALSE
        /\ failed' = (failed \/ d = "fail")
        /\ collected' = IF d \in {"fail", "raise", "empty"} THEN collected ELSE acc
        /\ pc' = CASE d = "follow" -> "follow"
                  [] d = "raise" -> "crashed"
                  [] OTHER -> "filter"
        /\ url' = IF d = "follow" THEN r.next ELSE url
        /\ ev' = Event("follow", r, d)
    /\ UNCHANGED <<params, page, items, written, args, env>>

(***************************************************************************)
(* The recency filter, lines 175-204.                                      *)
(***************************************************************************)
NoDt == [kind |-> "none", t |-> 0]

\* `if candidate`: the key is there and its value is not ''
Present(ts) == ts.fmt \notin {"none", "empty"}

\* datetime.fromisoformat(candidate.replace('Z', '+00:00')): a trailing Z gives an
\* offset-aware datetime, no offset a naive one; "fail" stands for the exception
FromIso(ts) ==
    CASE ts.fmt = "z" -> [kind |-> "aware", t |-> ts.t]
      [] ts.fmt = "naive" -> [kind |-> "naive", t |-> ts.t]
      [] OTHER -> [kind |-> "fail", t |-> 0]

\* datetime.strptime(candidate, '%Y-%m-%dT%H:%M:%S.%fZ'): always naive
Strptime(ts) ==
    IF ts.fmt = "alt" THEN [kind |-> "naive", t |-> ts.t] ELSE [kind |-> "fail", t |-> 0]

\* the four candidates, in the order of lines 179-184 and 373-378
Candidates(a) == <<a.fc, a.vc, a.lu, a.cr>>

RECURSIVE CreatedFrom(_, _)
CreatedFrom(cands, i) ==
    IF i > Len(cands) THEN NoDt
    ELSE IF ~Present(cands[i]) THEN CreatedFrom(cands, i + 1)
    ELSE IF FromIso(cands[i]).kind # "fail" THEN FromIso(cands[i])
    ELSE IF Strptime(cands[i]).kind # "fail" THEN Strptime(cands[i])
    ELSE CreatedFrom(cands, i + 1)

\* _get_created_dt
get_created_dt(a) == CreatedFrom(Candidates(a), 1)

\* datetime.utcnow() - timedelta(days=int(max_days)): a naive datetime
Cutoff == Now - Val(max_days)

\* `dt >= cutoff` raises TypeError when dt is offset-aware, cutoff being naive
Raises(a) == get_created_dt(a).kind = "aware"

\* `dt is None or dt >= cutoff`
Keeps(a) == get_created_dt(a).kind = "none" \/ get_created_dt(a).t >= Cutoff

\* `if max_days:`
FilterRuns == Truthy(max_days)

RecencyFilter ==
    /\ pc = "filter"
    /\ IF ~FilterRuns
          THEN pc' = "render" /\ collected' = collected
          ELSE IF \E i \in 1..Len(collected) : Raises(collected[i])
                  THEN pc' = "crashed" /\ collected' = collected
                  ELSE pc' = "render" /\ collected' = SelectSeq(collected, Keeps)
    /\ UNCHANGED <<params, page, url, items, written, nreq, failed, regular, ev, args, env>>

(***************************************************************************)
(* The renderer, lines 206-417: one <item> per record of `addons`.         *)
(***************************************************************************)
\* lines 228-230
Title(a) ==
    IF a.name # "" \/ a.version # "" THEN <<a.name, " v", a.version>> ELSE <<"Unknown">>

\* lines 372-381: the first present candidate, whether it parses or not
RECURSIVE FirstPresent(_, _)
FirstPresent(cands, i) ==
    IF i > Len(cands) THEN TNone
    ELSE IF Present(cands[i]) THEN cands[i]
    ELSE FirstPresent(cands, i + 1)

\* lines 383-389: the pubDate element, or None when there is none
PubDate(a) ==
    LET created_str == FirstPresent(Candidates(a), 1) IN
    IF Present(created_str) /\ FromIso(created_str).kind # "fail"
       THEN Some(FromIso(created_str).t)
       ELSE None

\* line 415
Guid(a) == IF a.slug # "" THEN a.slug ELSE IF a.id # 0 THEN ToString(a.id) ELSE ""

RenderItem(a) ==
    [n |-> a.n,
     title |-> Title(a),
     link |-> <<"https://addons.mozilla.org/en-US/firefox/addon/", a.slug, "/">>,
     pubDate |-> PubDate(a),
     guid |-> Guid(a)]

\* a renderer that emits no item for a record without a slug and an id
RenderAllSkipping(addons) ==
    LET named == SelectSeq(addons, LAMBDA a : Guid(a) # "") IN
    [i \in 1..Len(named) |-> RenderItem(named[i])]
RenderAll(addons) == [i \in 1..Len(addons) |-> RenderItem(addons[i])]

Render ==
    /\ pc = "render"
    /\ items' = RenderAll(collected)
    /\ pc' = "write"
    /\ UNCHANGED <<params, page, url, collected, written, nreq, failed, regular, ev, args, env>>

(***************************************************************************)
(* Output files, lines 111-122 and 419-437. Strings are sequences of       *)
(* characters.                                                             *)
(***************************************************************************)
UpperChars == <<"A", "B", "C", "D", "E", "F", "G", "H", "I", "J", "K", "L", "M",
                "N", "O", "P", "Q", "R", "S", "T", "U", "V", "W", "X", "Y", "Z">>
LowerChars == <<"a", "b", "c", "d", "e", "f", "g", "h", "i", "j", "k", "l", "m",
                "n", "o", "p", "q", "r", "s", "t", "u", "v", "w", "x", "y", "z">>
DigitChars == {"0", "1", "2", "3", "4", "5", "6", "7", "8", "9"}

\* str.lower(), character by character
LowerChar(c) ==
    IF \E i \in 1..Len(UpperChars) : UpperChars[i] = c
       THEN LowerChars[CHOOSE i \in 1..Len(UpperChars) : UpperChars[i] = c]
       ELSE c

Lower(str) == [i \in 1..Len(str) |-> LowerChar(str[i])]

\* the characters str.isalnum() accepts, among ASCII
AlnumChars ==
    {UpperChars[i] : i \in 1..Len(UpperChars)} \cup {LowerChars[i] : i \in 1..Len(LowerChars)}
        \cup DigitChars

\* `ch.isalnum() or ch in ('_', '-')`
SafeChar(ch) == ch \in AlnumChars \/ ch \in {"_", "-"}

S_theme == <<"t", "h", "e", "m", "e">>

\* lines 114-122: file_label
FileLabel(t) ==
    LET at == Lower(t) IN
    IF at \in {S_theme, S_theme \o <<"s">>} THEN S_theme
    ELSE IF Len(at) > 0 /\ at[Len(at)] = "s" THEN SubSeq(at, 1, Len(at) - 1)
    ELSE at

\* line 434: safe_label
SafeLabel(t) ==
    LET label == IF FileLabel(t) # <<>> THEN FileLabel(t) ELSE t IN
    Lower(SelectSeq(label, SafeChar))

\* line 428
DefaultOutpath == <<"public/", "amo_latest_", "a", "d", "d", "o", "n", "s", ".xml">>

\* line 435
TypeOutpath(t) == <<"public/", "amo_latest_">> \o SafeLabel(t) \o <<"s", ".xml">>

\* lines 427-437: the paths written, in order
\* the policy of the docstring of lines 69-70
WritesLegacy(t) ==
    <<DefaultOutpath>> \o (IF t # <<>> THEN <<TypeOutpath(t)>> ELSE <<>>)
Writes(t) ==
    (IF t = <<>> THEN <<DefaultOutpath>> ELSE <<>>)
    \o (IF t # <<>> THEN <<TypeOutpath(t)>> ELSE <<>>)

Write ==
    /\ pc = "write"
    /\ written' = [i \in 1..Len(Writes(amo_type)) |->
                      [path |-> Writes(amo_type)[i], channel |-> items]]
    /\ pc' = "done"
    /\ UNCHANGED <<params, page, url, collected, items, nreq, failed, regular, ev, args, env>>

Next == Begin \/ FetchPage \/ FetchFollowing \/ RecencyFilter \/ Render \/ Write

Spec == Init /\ [][Next]_vars

(***************************************************************************)
(* _env_or_arg, lines 440-457. A flag or an environment variable is None   *)
(* when it is not given; a string is a sequence of characters, an integer  *)
(* variable holds the integer its text denotes.                            *)
(***************************************************************************)
DefaultPageSize == 50
DefaultMaxItems == 200
DefaultMaxDays == 0

\* what argparse stores: the flag's value, or the declared default
Parsed(flag, default) == IF flag = None THEN default ELSE Val(flag)

\* os.environ.get(NAME, default), through int() for the integer settings
Getenv(v, default) == IF v = None THEN default ELSE Val(v)

\* Python's `a or b` on strings: '' and None are falsy
OrStr(a, b) == IF a # <<>> THEN a ELSE b

\* Python's `a or b` on integers: 0 is falsy
OrInt(a, b) == IF a # 0 THEN a ELSE b

InitCli ==
    /\ args \in [search_url : {None, Some("u1")}, amo_type : {<<>>, <<"x">>},
                 q : {<<>>, <<"k">>}, page_size : {None, Some(0), Some(1)},
                 max_items : {None, Some(0), Some(1)},
                 max_days : {None, Some(0), Some(1)}]
    /\ env \in [search_url : {None, Some("u2")}, amo_type : {<<>>, <<"y">>},
                q : {<<>>, <<"j">>}, page_size : {None, Some(2)},
                max_items : {None, Some(2)}, max_days : {None, Some(2)}]
    /\ pc = "cli"
    /\ search_url = None
    /\ amo_type = <<>>
    /\ q = <<>>
    /\ page_size = 0
    /\ max_items = None
    /\ max_days = None
    /\ catalog = {}
    /\ page = 1
    /\ url = None
    /\ collected = <<>>
    /\ items = <<>>
    /\ written = <<>>
    /\ nreq = 0
    /\ failed = FALSE
    /\ regular = TRUE
    /\ ev = NoEv

\* lines 448-457, and line 461 binding the result for generate_rss_feed
EnvOrArg ==
    /\ pc = "cli"
    /\ search_url' = OrStr(args.search_url, env.search_url)
    /\ amo_type' = OrStr(args.amo_type, env.amo_type)
    /\ q' = OrStr(args.q, env.q)
    /\ page_size' = OrInt(Parsed(args.page_size, DefaultPageSize),
                          Getenv(env.page_size, DefaultPageSize))
    /\ max_items' = Some(OrInt(Parsed(args.max_items, DefaultMaxItems),
                               Getenv(env.max_items, DefaultMaxItems)))
    /\ LET d == OrInt(Parsed(args.max_days, DefaultMaxDays),
                      Getenv(env.max_days, DefaultMaxDays))
       IN max_days' = IF d > 0 THEN Some(d) ELSE None
    /\ pc' = "start"
    /\ UNCHANGED <<catalog, page, url, collected, items, written, nreq, failed,
                   regular, ev, args, env>>

NextCli == EnvOrArg

SpecCli == InitCli /\ [][NextCli]_vars

(***************************************************************************)
(* The claims.                                                             *)
(***************************************************************************)
InFetch == pc \in {"param", "follow"}

\* C1: in parameter mode, a server that answers with full pages of page_size
\* records and no "next" link (and an empty page after its N-th) leaves exactly
\* min(N * page_size, max_items) records in the accumulator. A run that ends on
\* the empty page has seen N = nreq - 1 full pages; a run the cap ended has
\* seen at least max_items records, so the minimum is max_items.
C1_YieldsMin ==
    (pc = "filter" /\ search_url = None /\ regular /\ Truthy(max_items))
        => Len(collected) = IF ev.did = "empty"
                               THEN Min((nreq - 1) * page_size, Val(max_items))
                               ELSE Val(max_items)

\* C2: with a positive max_items the fetch stage terminates whatever the
\* server answers, in both modes: it issues at most max_items requests, it is
\* never stuck inside a loop, and a request that does not end the loop adds at
\* least one record and leaves the accumulator below the cap.
C2_FetchTerminates ==
    /\ [](Truthy(max_items) => nreq <= Val(max_items))
    /\ []((Truthy(max_items) /\ InFetch) => ENABLED Next)
    /\ [][(Truthy(max_items) /\ InFetch /\ InFetch')
            => (Len(collected') > Len(collected) /\ Len(collected') < Val(max_items))]_vars

\* C2's case: the cap ends a run that follows "next" links, at the last
\* request the cap allows.
C2_Witness ==
    /\ Truthy(max_items)
    /\ nreq = Val(max_items)
    /\ nreq >= 2
    /\ ev.mode = "follow"
    /\ ev.did = "cap"
    /\ pc = "filter"

\* C3: after a transport failure or a non-200 status no further request is
\* issued, the records of the earlier pages stay in the accumulator in order,
\* and the run goes on through filter, render and write and writes a file.
C3_FailureStillWrites ==
    failed =>
        /\ ~InFetch
        /\ pc # "crashed"
        /\ (pc = "filter" => \A i \in 1..Len(collected) : collected[i].n = i)
        /\ (pc = "done" => Len(written) >= 1)

\* C4: in a run without an explicit search URL, after a successful non-empty
\* page that leaves the accumulator below the cap and has no "next" link, the
\* fetcher stops when the page is shorter than page_size and otherwise requests
\* the next page number, also when the page was reached through a "next" link.
C4_NoNextDecision ==
    [][(search_url = None /\ InFetch /\ ev'.did \in {"short", "page", "nonext"})
         => IF ev'.k < page_size
               THEN pc' = "filter"
               ELSE pc' = "param" /\ page' = page + 1]_vars

\* the instant a record's timestamp resolves to is at or after the cutoff, or
\* the record has no timestamp that can be determined
C5_Retained(a) ==
    \/ get_created_dt(a).kind = "none"
    \/ get_created_dt(a).t >= Now - Val(max_days)

\* C5: with a positive max_days the filter completes without raising and
\* retains, in order, exactly the records whose timestamp is at or after the
\* cutoff or cannot be determined, a trailing "Z" being read as UTC.
C5_FilterExact ==
    [][(pc = "filter" /\ max_days # None /\ Val(max_days) > 0)
         => (pc' = "render" /\ collected' = SelectSeq(collected, C5_Retained))]_vars

\* C6: when max_days is None, zero or negative the filter leaves the
\* accumulator unchanged.
C6_NoFilterWhenNonPositive ==
    [][(pc = "filter" /\ (max_days = None \/ Val(max_days) <= 0))
         => (pc' = "render" /\ collected' = collected)]_vars

Paths(w) == {w[i].path : i \in 1..Len(w)}

C_Combined == <<"public/", "amo_latest_", "a", "d", "d", "o", "n", "s", ".xml">>

\* the type-specific path each type input of the model is documented to give
C_TypePath(t) ==
    CASE t = <<"t", "h", "e", "m", "e", "s">> ->
            <<"public/", "amo_latest_", "t", "h", "e", "m", "e", "s", ".xml">>
      [] t = <<"E", "x", "t", "e", "n", "s", "i", "o", "n">> ->
            <<"public/", "amo_latest_", "e", "x", "t", "e", "n", "s", "i", "o", "n",
              "s", ".xml">>
      [] t = <<"a", "d", "d", "o", "n", "s">> ->
            <<"public/", "amo_latest_", "a", "d", "d", "o", "n", "s", ".xml">>

\* C7: a run that reaches the write stage writes exactly one file: the
\* combined file iff no type filter was requested, the type-specific file iff
\* one was; a run with a type filter never writes the combined file.
C7_OneFileNeverClobbers ==
    pc = "done" =>
        /\ Len(written) = 1
        /\ (amo_type = <<>> <=> C_Combined \in Paths(written))
        /\ (amo_type # <<>> => C_TypePath(amo_type) \in Paths(written))

C_Effective(flag, envv, default) ==
    IF flag # None THEN Val(flag) ELSE IF envv # None THEN Val(envv) ELSE default

C_EffectiveStr(flag, envv) == IF flag # <<>> THEN flag ELSE envv

\* C9: each of the six settings takes the flag's value when the flag is given,
\* else the environment variable's when it is set, else the default (page size
\* 50, max items 200, max age unlimited, which None and any value below 1
\* stand for).
C9_FlagThenEnvThenDefault ==
    pc = "start" =>
        /\ search_url = C_EffectiveStr(args.search_url, env.search_url)
        /\ amo_type = C_EffectiveStr(args.amo_type, env.amo_type)
        /\ q = C_EffectiveStr(args.q, env.q)
        /\ page_size = C_Effective(args.page_size, env.page_size, 50)
        /\ max_items = Some(C_Effective(args.max_items, env.max_items, 200))
        /\ LET d == C_Effective(args.max_days, env.max_days, 0)
           IN max_days = IF d > 0 THEN Some(d) ELSE None

\* C10: the channel holds exactly one item per record that survived the
\* filter, in the order the API returned the records, none twice, skipped or
\* reordered, and every file written holds that channel.
C10_OneItemPerRecord ==
    pc \in {"write", "done"} =>
        /\ Len(items) = Len(collected)
        /\ \A i \in 1..Len(items) : items[i].n = collected[i].n
        /\ \A i, j \in 1..Len(items) : i < j => items[i].n < items[j].n
        /\ \A i \in 1..Len(written) : written[i].channel = items

\* C10's case: a written channel of two items or more, one of them of a record
\* with no name, version, slug, id or timestamps, after the filter dropped an
\* earlier record.
C10_Witness ==
    /\ pc = "done"
    /\ Len(written) = 1
    /\ Len(written[1].channel) >= 2
    /\ \E i \in 1..Len(items) :
          /\ items[i].title = <<"Unknown">>
          /\ items[i].guid = ""
          /\ items[i].pubDate = None
          /\ items[i].n > i

\* the one field C11 resolves a record's timestamp from: the first present,
\* non-empty candidate, which is the field the pubDate comes from
C11_Field(a) == FirstPresent(Candidates(a), 1)

\* that field is missing altogether or is rejected by both parsers
C11_Undated(a) == C11_Field(a).fmt \in {"none", "empty", "bad"}

\* C11: filter and pubDate resolve a record's timestamp from the same single
\* field, the first present one. A filter that completes retains exactly the
\* records that field dates at or after the cutoff and those it leaves undated,
\* later fields not being consulted; and a record whose first present field
\* cannot be parsed yields an item without pubDate.
C11_SameSingleField ==
    /\ [][(pc = "filter" /\ max_days # None /\ Val(max_days) > 0 /\ pc' = "render")
            => collected' = SelectSeq(collected,
                   LAMBDA a : C11_Undated(a) \/ C11_Field(a).t >= Now - Val(max_days))]_vars
    /\ [](pc \in {"write", "done"}
            => \A i \in 1..Len(items) :
                  (Len(items) = Len(collected) /\ C11_Undated(collected[i]))
                      => items[i].pubDate = None)

====
